---- MODULE Spec2Model ----
(***************************************************************************)
(* Competition lifecycle of the typing-competition server                  *)
(* (handleStartCompetition / handleEndCompetition), the ranking computed   *)
(* at the end of a competition, and the collaborators they touch: the      *)
(* stored Competition document, the Participant collection, the socket.io  *)
(* room of the competition and the auto-end timer.                         *)
(*                                                                         *)
(* Node runs one callback at a time: the code between two awaits of an     *)
(* async function is one atomic step, and every await is a point where     *)
(* other callbacks interleave.  Each action below is one such step.        *)
(***************************************************************************)
EXTENDS Integers, Sequences, FiniteSets, TLC

\* ------------------------------------------------------------------ bounds
NumStartCalls == 2      \* startCompetition requests in a run
NumManualEnds == 1      \* handleEndCompetition calls not made by a timer
NumParticipants == 2    \* entries of compData.participants
MaxWpm == 1             \* largest wpm a progress update reports
MaxRankLen == 3         \* longest participants array ranked on its own
MaxRankWpm == 3         \* largest wpm in a participants array ranked on its own

\* ------------------------------------------------------------- identifiers
StartCalls == 1..NumStartCalls
ManualEnds == {<<"manual", i>> : i \in 1..NumManualEnds}
TimerEnds == {<<"timer", c>> : c \in StartCalls}
EndCalls == ManualEnds \cup TimerEnds
Sockets == 1..NumParticipants

\* competition ids a request can carry: "comp" is stored and has a session in
\* activeCompetitions, "noSession" is stored but has no session, "unknown"
\* is not stored at all
CompetitionIds == {"comp", "noSession", "unknown"}
Stored == {"comp", "noSession"}
Active == {"comp"}

NoData == [none |-> TRUE]

VARIABLES
    competitionInProgress,  \* compData.competitionInProgress
    participants,           \* compData.participants, in insertion order
    competition,            \* the stored Competition document of "comp"
    participantResults,     \* Participant.results of each socketId
    startCall,              \* the handleStartCompetition invocations
    endCall,                \* the handleEndCompetition invocations
    timer,                  \* the setTimeout armed by each start
    room,                   \* events emitted to the competition's room
    socketErrors,           \* 'error' events emitted to each caller's socket
    leaderboardCalls,       \* calls of updateAndBroadcastLeaderboard
    rankInput,              \* participants array handed to the ranking
    rankOutput,             \* finalResults it produced
    createRequest,          \* req.body of a POST /create
    createResponse,         \* what the route answered
    createStored,           \* the Competition documents the route has saved
    otherCompData,          \* activeCompetitions entry of a second session
    otherRoom,              \* events emitted to the second session's room
    now,                    \* the server clock, in ticks
    lastLeaderboardUpdate,  \* compData.lastLeaderboardUpdate, in ms
    emitTimes,              \* times of the leaderboardUpdate emissions, in ms
    inbox,                  \* a progress event on its way to the server
    isOnline,               \* NetworkManager.isOnline
    connectionStatus,       \* NetworkManager.connectionStatus
    retryAttempts,          \* NetworkManager.retryAttempts
    netCall,                \* the retryOperation calls of the page
    errorsNotified,         \* calls of NetworkManager.notifyError
    netEvents               \* connectivity events the browser has delivered

lifeVars == <<competitionInProgress, participants, competition,
              participantResults, startCall, endCall, timer, room,
              socketErrors, leaderboardCalls>>
rankVars == <<rankInput, rankOutput>>
createVars == <<createRequest, createResponse, createStored>>
otherVars == <<otherCompData, otherRoom>>
clockVars == <<now, lastLeaderboardUpdate, emitTimes, inbox>>
\* the variables the lifecycle handlers have no access to
netVars == <<isOnline, connectionStatus, retryAttempts, netCall,
             errorsNotified, netEvents>>
farVars == <<rankVars, createVars, otherCompData, now, inbox, netVars>>
\* the variables only an emission of the lifecycle handlers changes
sideVars == <<farVars, otherRoom, lastLeaderboardUpdate, emitTimes>>
vars == <<lifeVars, sideVars>>

\* the in-memory session state of "comp" (compData)
session == <<competitionInProgress, participants>>
\* what the subscribers of the room and the callers have been sent
sent == <<room, socketErrors>>

\* ----------------------------------------------------------------- helpers
\* p.competitionData written by the reset loop of handleStartCompetition
ResetDataFromPayload ==
    [correctChars |-> 0, totalChars |-> 0, wpm |-> 0, accuracy |-> 0,
     errors |-> 0, backspaces |-> 0, testStartTime |-> "data.startTime",
     wordsTyped |-> 0, completed |-> FALSE]
ResetData ==
    [correctChars |-> 0, totalChars |-> 0, wpm |-> 0, accuracy |-> 0,
     errors |-> 0, backspaces |-> 0, testStartTime |-> "Date.now",
     wordsTyped |-> 0, completed |-> FALSE]

\* competitionData after a progress update that reports wpm w
ProgressData(w) ==
    [correctChars |-> 5 * w, totalChars |-> 5 * w, wpm |-> w,
     accuracy |-> 100, errors |-> 0, backspaces |-> 0,
     testStartTime |-> "Date.now", wordsTyped |-> w, completed |-> FALSE]

\* one element of finalResults before ranking: `data.x || 0` of every counter
ResultOf(p) ==
    LET data == IF p.competitionData = NoData THEN [wpm |-> 0, accuracy |-> 0,
                    correctChars |-> 0, totalChars |-> 0, errors |-> 0,
                    backspaces |-> 0, wordsTyped |-> 0, completed |-> FALSE]
                ELSE p.competitionData
    IN [participantName |-> p.name, participantId |-> p.socketId,
        wpm |-> data.wpm, accuracy |-> data.accuracy,
        correctChars |-> data.correctChars, totalChars |-> data.totalChars,
        incorrectChars |-> data.errors, errors |-> data.errors,
        backspaces |-> data.backspaces, rank |-> 0,
        typingTime |-> 0,   \* no competitionData written here has typingTime
        wordsTyped |-> data.wordsTyped, completed |-> data.completed]

\* the comparator of finalResults.sort: (a, b) => b.wpm - a.wpm
CompareAsc(a, b) == a.wpm - b.wpm
Compare(a, b) == b.wpm - a.wpm

\* Array.prototype.sort is stable: an element goes after every element the
\* comparator does not order after it
RECURSIVE InsertSorted(_, _)
InsertSorted(x, s) ==
    IF s = <<>> THEN <<x>>
    ELSE IF Compare(Head(s), x) <= 0 THEN <<Head(s)>> \o InsertSorted(x, Tail(s))
    ELSE <<x>> \o s

RECURSIVE SortResults(_)
SortResults(s) ==
    IF s = <<>> THEN <<>>
    ELSE InsertSorted(s[Len(s)], SortResults(SubSeq(s, 1, Len(s) - 1)))

\* finalResults.forEach((result, index) => result.rank = index + 1)
AssignRanks(s) == [i \in 1..Len(s) |-> [s[i] EXCEPT !.rank = i]]

\* finalResults of handleEndCompetition for a participants array
FinalResults(parts) == AssignRanks(SortResults([i \in 1..Len(parts) |-> ResultOf(parts[i])]))

\* competition.finalRankings
FinalRankingOf(result) ==
    [rank |-> result.rank, participantName |-> result.participantName,
     averageWpm |-> result.wpm, averageAccuracy |-> result.accuracy,
     totalRoundsCompleted |-> 1, highestWpm |-> result.wpm,
     lowestWpm |-> result.wpm]

\* the element read from the participant's live counters at write time
StoredResultLive(result) ==
    LET live == ResultOf(participants[result.participantId])
    IN [wpm |-> live.wpm, accuracy |-> live.accuracy,
        correctChars |-> live.correctChars, totalChars |-> live.totalChars,
        errors |-> live.errors, backspaces |-> live.backspaces,
        typingTime |-> live.typingTime, wordsTyped |-> live.wordsTyped,
        completed |-> live.completed]

\* the element pushed to Participant.results
StoredResultOf(result) ==
    [wpm |-> result.wpm, accuracy |-> result.accuracy,
     correctChars |-> result.correctChars, totalChars |-> result.totalChars,
     errors |-> result.errors, backspaces |-> result.backspaces,
     typingTime |-> result.typingTime, wordsTyped |-> result.wordsTyped,
     completed |-> result.completed]

\* starts that have set competitionInProgress, ends that have cleared it
StartPasses == Cardinality({c \in StartCalls : startCall[c].passed})
EndPasses == Cardinality({e \in EndCalls : endCall[e].passed})

\* ------------------------------------------------------------------- Init
IdleStart == [pc |-> "idle", id |-> "comp", out |-> "none", passed |-> FALSE,
              epoch |-> 0]
IdleEnd == [pc |-> "idle", out |-> "none", checked |-> FALSE, passed |-> FALSE,
            epoch |-> 0, finalResults |-> <<>>, next |-> 1, emitted |-> FALSE]

\* mode and modeConfig.textPool of a competition POST /create stores: a text
\* pool is required for word-count only, and rounds mode has no use for one
Configs == {<<"timed", TRUE>>, <<"timed", FALSE>>, <<"word-count", TRUE>>,
            <<"rounds", FALSE>>}

InitLife ==
    /\ competitionInProgress = FALSE
    /\ participants = [i \in Sockets |->
                         [name |-> i, socketId |-> i, competitionData |-> NoData]]
    /\ \E cfg \in Configs :
         competition = [status |-> "pending", startedAt |-> 0, completedAt |-> 0,
                        finalRankings |-> <<>>, mode |-> cfg[1],
                        hasTextPool |-> cfg[2]]
    /\ participantResults = [i \in Sockets |-> <<>>]
    /\ startCall = [c \in StartCalls |-> IdleStart]
    /\ endCall = [e \in EndCalls |-> IdleEnd]
    /\ timer = [c \in StartCalls |-> "none"]
    /\ room = [competitionStarted |-> 0, competitionEnded |-> 0]
    /\ socketErrors = [c \in StartCalls |-> 0]
    /\ leaderboardCalls = 0

InitRankIdle ==
    /\ rankInput = <<>>
    /\ rankOutput = <<>>

\* no POST /create has been received
NoRequest == [none |-> TRUE]
InitCreateIdle ==
    /\ createRequest = NoRequest
    /\ createResponse = "none"
    /\ createStored = <<>>

\* the second session is registered and idle
OtherId == "other"
OtherIdle == [competitionInProgress |-> FALSE, competitionData |-> NoData]
InitOtherIdle ==
    /\ otherCompData = OtherIdle
    /\ otherRoom = 0

\* compData.lastLeaderboardUpdate is not set before the first update
Never == -1
NoEvent == [participantId |-> 0, wpm |-> 0, state |-> "none"]
InitClockIdle ==
    /\ now = 0
    /\ lastLeaderboardUpdate = Never
    /\ emitTimes = <<>>
    /\ inbox = NoEvent

\* a NetworkManager constructed online, with no retryOperation called
NumNetCalls == 2
NetCalls == 1..NumNetCalls
IdleNetCall == [pc |-> "idle", out |-> "none", invocations |-> 0,
                waits |-> <<>>, notified |-> 0, clean |-> FALSE,
                reset |-> FALSE, overlapped |-> FALSE]
InitNetIdle ==
    /\ isOnline = TRUE
    /\ connectionStatus = "connected"
    /\ retryAttempts = 0
    /\ netCall = [c \in NetCalls |-> IdleNetCall]
    /\ errorsNotified = 0
    /\ netEvents = 0

Init ==
    /\ InitLife
    /\ InitRankIdle
    /\ InitCreateIdle
    /\ InitOtherIdle
    /\ InitClockIdle
    /\ InitNetIdle

\* ------------------------------------------------------------- emissions
Rooms == {"comp", OtherId}
ToEveryRoom(competitionId) == Rooms

\* io.to(`competition_${competitionId}`): the rooms an emission reaches
RoomsTo(competitionId) == {competitionId}

\* how many copies of one emission for competitionId arrive in roomName
Delivered(roomName, competitionId) ==
    IF roomName \in RoomsTo(competitionId) THEN 1 ELSE 0

\* length of a tick of the clock, and the number of ticks of a run
TickMs == 500
MaxTicks == 3
Time == now * TickMs

\* updateAndBroadcastLeaderboard: the leaderboard goes out to the room and
\* the time of the update is kept
updateAndBroadcastLeaderboard ==
    /\ emitTimes' = Append(emitTimes, Time)
    /\ lastLeaderboardUpdate' = Time

\* ------------------------------------------------- handleStartCompetition
\* a startCompetition request arrives: the handler runs up to the await of
\* Competition.findById
StartRequest(c, id) ==
    /\ startCall[c].pc = "idle"
    /\ startCall' = [startCall EXCEPT ![c].pc = "findById", ![c].id = id]
    /\ UNCHANGED <<session, competition, participantResults, endCall, timer,
                   sent, leaderboardCalls, sideVars>>

StartReturns(c, outcome) ==
    startCall' = [startCall EXCEPT ![c].pc = "done", ![c].out = outcome]

\* socket.emit('error', ...) on the caller's socket
EmitError(c) == socketErrors' = [socketErrors EXCEPT ![c] = @ + 1]

\* Competition.findById rejects: the catch block reports the failure
StartLookupFails(c) ==
    /\ startCall[c].pc = "findById"
    /\ StartReturns(c, "lookupFailed")
    /\ EmitError(c)
    /\ UNCHANGED <<session, competition, participantResults, endCall, timer,
                   room, leaderboardCalls, sideVars>>

\* findById resolves with null
StartNotFound(c) ==
    /\ startCall[c].pc = "findById"
    /\ startCall[c].id \notin Stored
    /\ StartReturns(c, "notFound")
    /\ EmitError(c)
    /\ UNCHANGED <<session, competition, participantResults, endCall, timer,
                   room, leaderboardCalls, sideVars>>

\* activeCompetitions.get(competitionId) is undefined
StartNoSession(c) ==
    /\ startCall[c].pc = "findById"
    /\ startCall[c].id \in Stored
    /\ startCall[c].id \notin Active
    /\ StartReturns(c, "noSession")
    /\ UNCHANGED <<session, competition, participantResults, endCall, timer,
                   sent, leaderboardCalls, sideVars>>

\* the guard of the start handler: if (compData.competitionInProgress) return
StartGuardNever(inProgress) == FALSE
StartGuardBlocks(inProgress) == inProgress

StartBlocked(c) ==
    /\ startCall[c].pc = "findById"
    /\ startCall[c].id \in Stored \cap Active
    /\ StartGuardBlocks(competitionInProgress)
    /\ StartReturns(c, "blocked")
    /\ UNCHANGED <<session, competition, participantResults, endCall, timer,
                   sent, leaderboardCalls, sideVars>>

\* reading competition.modeConfig.textPool[...] throws when there is no pool
ConfigThrows == competition.mode \in {"timed", "word-count"}
                /\ ~competition.hasTextPool

\* the guard lets the call through, and building competitionConfig throws:
\* the catch block reports the failure
StartConfigFails(c) ==
    /\ startCall[c].pc = "findById"
    /\ startCall[c].id \in Stored \cap Active
    /\ ~StartGuardBlocks(competitionInProgress)
    /\ ConfigThrows
    /\ competitionInProgress' = TRUE
    /\ startCall' = [startCall EXCEPT ![c].pc = "done",
                                      ![c].out = "configFailed",
                                      ![c].passed = TRUE,
                                      ![c].epoch = StartPasses + 1]
    /\ EmitError(c)
    /\ UNCHANGED <<participants, competition, participantResults, endCall,
                   timer, room, leaderboardCalls, sideVars>>

\* the guard lets the call through: the flag is set, the participants are
\* reset and the handler awaits Competition.findByIdAndUpdate
StartPassesGuard(c) ==
    /\ startCall[c].pc = "findById"
    /\ startCall[c].id \in Stored \cap Active
    /\ ~StartGuardBlocks(competitionInProgress)
    /\ ~ConfigThrows
    /\ competitionInProgress' = TRUE
    /\ participants' = [i \in Sockets |->
                          [participants[i] EXCEPT !.competitionData = ResetData]]
    /\ startCall' = [startCall EXCEPT ![c].pc = "update",
                                      ![c].passed = TRUE,
                                      ![c].epoch = StartPasses + 1]
    /\ UNCHANGED <<competition, participantResults, endCall, timer, sent,
                   leaderboardCalls, sideVars>>

\* findByIdAndUpdate resolves: competitionStarted is broadcast and, in timed
\* mode, the auto-end timer is armed
StartUpdateSucceeds(c) ==
    /\ startCall[c].pc = "update"
    /\ competition' = [competition EXCEPT !.status = "ongoing",
                                          !.startedAt = startCall[c].epoch]
    /\ room' = [room EXCEPT !.competitionStarted = @ + 1]
    /\ otherRoom' = otherRoom + Delivered(OtherId, startCall[c].id)
    /\ timer' = [timer EXCEPT ![c] =
                    IF competition.mode = "timed" THEN "armed" ELSE @]
    /\ StartReturns(c, "started")
    /\ UNCHANGED <<session, participantResults, endCall, socketErrors,
                   leaderboardCalls, farVars, lastLeaderboardUpdate,
                   emitTimes>>

\* findByIdAndUpdate rejects: the catch block reports the failure
StartUpdateFails(c) ==
    /\ startCall[c].pc = "update"
    /\ StartReturns(c, "updateFailed")
    /\ EmitError(c)
    /\ UNCHANGED <<session, competition, participantResults, endCall, timer,
                   room, leaderboardCalls, sideVars>>

handleStartCompetition(c) ==
    \/ \E id \in CompetitionIds : StartRequest(c, id)
    \/ StartLookupFails(c)
    \/ StartNotFound(c)
    \/ StartNoSession(c)
    \/ StartBlocked(c)
    \/ StartConfigFails(c)
    \/ StartPassesGuard(c)
    \/ StartUpdateSucceeds(c)
    \/ StartUpdateFails(c)

\* -------------------------------------------------- handleEndCompetition
\* what makes end invocation e run: a manual call, or the timer armed by
\* start e[2] firing
Triggered(e) ==
    IF e \in ManualEnds
    THEN endCall[e].pc = "idle" /\ UNCHANGED timer
    ELSE timer[e[2]] = "armed" /\ timer' = [timer EXCEPT ![e[2]] = "fired"]

\* the guard of the end handler:
\* if (!compData || !compData.competitionInProgress) return
EndGuardAlways(inProgress) == TRUE
EndGuardPasses(inProgress) == inProgress

\* the flag the end handler leaves behind once it is past the guard
FlagAfterEndKept(inProgress) == inProgress
FlagAfterEnd(inProgress) == FALSE

\* the end is not for a competition in progress: nothing happens
EndIgnored(e) ==
    /\ Triggered(e)
    /\ ~EndGuardPasses(competitionInProgress)
    /\ endCall' = [endCall EXCEPT ![e].pc = "done", ![e].out = "ignored",
                                  ![e].checked = TRUE,
                                  ![e].epoch = StartPasses]
    /\ UNCHANGED <<session, competition, participantResults, startCall, sent,
                   leaderboardCalls, sideVars>>

\* the end passes the guard: the flag is cleared, finalResults is computed
\* from the participants as they are now, and the handler awaits
\* competition.save()
EndPassesGuard(e) ==
    /\ Triggered(e)
    /\ EndGuardPasses(competitionInProgress)
    /\ competitionInProgress' = FlagAfterEnd(competitionInProgress)
    /\ endCall' = [endCall EXCEPT ![e].pc = "save",
                                  ![e].checked = TRUE,
                                  ![e].passed = TRUE,
                                  ![e].epoch = StartPasses,
                                  ![e].finalResults = FinalResults(participants)]
    /\ UNCHANGED <<participants, competition, participantResults, startCall,
                   sent, leaderboardCalls, sideVars>>

\* io.to(room).emit('competitionEnded', ...) followed by the call of
\* updateAndBroadcastLeaderboard, which the handler awaits
Broadcast(e, calls) ==
    /\ room' = [room EXCEPT !.competitionEnded = @ + 1]
    /\ otherRoom' = otherRoom + Delivered(OtherId, "comp")
    /\ leaderboardCalls' = leaderboardCalls + 1
    /\ updateAndBroadcastLeaderboard
    /\ endCall' = [calls EXCEPT ![e].pc = "leaderboard", ![e].emitted = TRUE]

\* competition.save() resolves: the handler goes on to the first
\* Participant.findOneAndUpdate, or straight to the broadcast when there is
\* no result to store
EndSaveSucceeds(e) ==
    /\ endCall[e].pc = "save"
    /\ competition' = [competition EXCEPT
                          !.status = "completed",
                          !.completedAt = endCall[e].epoch,
                          !.finalRankings =
                              [i \in 1..Len(endCall[e].finalResults) |->
                                  FinalRankingOf(endCall[e].finalResults[i])]]
    /\ IF endCall[e].finalResults = <<>>
       THEN Broadcast(e, endCall)
       ELSE /\ endCall' = [endCall EXCEPT ![e].pc = "results", ![e].next = 1]
            /\ UNCHANGED <<room, leaderboardCalls, otherRoom,
                           lastLeaderboardUpdate, emitTimes>>
    /\ UNCHANGED <<session, participantResults, startCall, timer, socketErrors,
                   farVars>>

\* the handler returns: its locals are gone
EndHandlerReturns(e, outcome) ==
    endCall' = [endCall EXCEPT ![e].pc = "done", ![e].out = outcome,
                               ![e].finalResults = <<>>, ![e].next = 1]

\* competition.save() rejects and the results are broadcast all the same
EndSaveFailsBroadcasts(e) ==
    /\ endCall[e].pc = "save"
    /\ Broadcast(e, endCall)
    /\ UNCHANGED <<session, competition, participantResults, startCall, timer,
                   socketErrors, farVars>>

\* competition.save() rejects: the catch block logs the error
EndSaveFails(e) ==
    /\ endCall[e].pc = "save"
    /\ EndHandlerReturns(e, "saveFailed")
    /\ UNCHANGED <<session, competition, participantResults, startCall, timer,
                   sent, leaderboardCalls, sideVars>>

\* Participant.findOneAndUpdate of the next result resolves: its result is
\* pushed; after the last one the final results are broadcast
EndResultStored(e) ==
    /\ endCall[e].pc = "results"
    /\ LET result == endCall[e].finalResults[endCall[e].next]
           last == endCall[e].next = Len(endCall[e].finalResults)
       IN /\ participantResults' =
                 [participantResults EXCEPT ![result.participantId] =
                      Append(@, StoredResultOf(result))]
          /\ IF last
             THEN Broadcast(e, endCall)
             ELSE /\ endCall' = [endCall EXCEPT ![e].next = @ + 1]
                  /\ UNCHANGED <<room, leaderboardCalls, otherRoom,
                                 lastLeaderboardUpdate, emitTimes>>
    /\ UNCHANGED <<session, competition, startCall, timer, socketErrors,
                   farVars>>

\* Participant.findOneAndUpdate rejects: the catch block logs the error
EndResultFails(e) ==
    /\ endCall[e].pc = "results"
    /\ EndHandlerReturns(e, "resultFailed")
    /\ UNCHANGED <<session, competition, participantResults, startCall, timer,
                   sent, leaderboardCalls, sideVars>>

\* updateAndBroadcastLeaderboard settles and the handler returns
EndReturns(e) ==
    /\ endCall[e].pc = "leaderboard"
    /\ EndHandlerReturns(e, "ended")
    /\ UNCHANGED <<session, competition, participantResults, startCall, timer,
                   sent, leaderboardCalls, sideVars>>

handleEndCompetition(e) ==
    \/ EndIgnored(e)
    \/ EndPassesGuard(e)
    \/ EndSaveSucceeds(e)
    \/ EndSaveFails(e)
    \/ EndResultStored(e)
    \/ EndResultFails(e)
    \/ EndReturns(e)

\* ------------------------------------------------------- progress updates
\* a participant's progress event while the competition is in progress
\* overwrites that participant's live counters
Progress(i, w) ==
    /\ competitionInProgress
    /\ participants' = [participants EXCEPT ![i].competitionData = ProgressData(w)]
    /\ UNCHANGED <<competitionInProgress, competition, participantResults,
                   startCall, endCall, timer, sent, leaderboardCalls, sideVars>>

\* ------------------------------------------------------------------- Spec
Next ==
    \/ \E c \in StartCalls : handleStartCompetition(c)
    \/ \E e \in EndCalls : handleEndCompetition(e)
    \/ \E i \in Sockets, w \in 1..MaxWpm : Progress(i, w)

Spec == Init /\ [][Next]_vars

\* ------------------------------------------- the ranking, taken on its own
\* the participants arrays the ranking is tried on: insertion order is the
\* position in the array, and each entry has no competitionData yet, has
\* just been reset, or has reported some wpm
RankData == {NoData, ResetData} \cup {ProgressData(w) : w \in 1..MaxRankWpm}
RankInputs ==
    UNION {[1..n -> RankData] : n \in 0..MaxRankLen}
ParticipantsOf(datas) ==
    [i \in 1..Len(datas) |->
        [name |-> i, socketId |-> i, competitionData |-> datas[i]]]

InitRank ==
    /\ InitLife
    /\ \E datas \in RankInputs : rankInput = ParticipantsOf(datas)
    /\ rankOutput = <<>>
    /\ InitCreateIdle
    /\ InitOtherIdle
    /\ InitClockIdle
    /\ InitNetIdle

\* lines 96-124 of handleEndCompetition applied to rankInput
RankParticipants ==
    /\ rankOutput = <<>>
    /\ rankOutput' = <<FinalResults(rankInput)>>
    /\ UNCHANGED <<lifeVars, netVars, rankInput, createVars, otherVars, clockVars>>

NextRank == RankParticipants

SpecRank == InitRank /\ [][NextRank]_vars

\* ----------------------------------------------------------- live traffic
LeaderboardInterval == 1000

\* a client emits a progress event
SendProgress(i, w) ==
    /\ inbox.state # "sent"
    /\ inbox' = [participantId |-> i, wpm |-> w, state |-> "sent"]
    /\ UNCHANGED <<lifeVars, netVars, rankVars, createVars, otherVars, now,
                   lastLeaderboardUpdate, emitTimes>>

\* the progress handler takes an event only while the round is in progress
ProgressAccepted(inProgress) == inProgress

\* if (!compData.lastLeaderboardUpdate ||
\*     Date.now() - compData.lastLeaderboardUpdate > 1000)
ThrottleOpen(last, t) == last = Never \/ t - last > LeaderboardInterval

\* the server handles the progress event: a late one is dropped, an accepted
\* one overwrites the participant's counters and asks for a leaderboard
\* update, which goes out only if the last one is old enough
applyProgress ==
    /\ inbox.state = "sent"
    /\ IF ProgressAccepted(competitionInProgress)
       THEN /\ inbox' = [inbox EXCEPT !.state = "applied"]
            /\ participants' =
                   [participants EXCEPT ![inbox.participantId].competitionData =
                        ProgressData(inbox.wpm)]
            /\ IF ThrottleOpen(lastLeaderboardUpdate, Time)
               THEN /\ leaderboardCalls' = leaderboardCalls + 1
                    /\ updateAndBroadcastLeaderboard
               ELSE UNCHANGED <<leaderboardCalls, lastLeaderboardUpdate,
                                emitTimes>>
       ELSE /\ inbox' = [inbox EXCEPT !.state = "dropped"]
            /\ UNCHANGED <<participants, leaderboardCalls,
                           lastLeaderboardUpdate, emitTimes>>
    /\ UNCHANGED <<competitionInProgress, competition, participantResults,
                   startCall, endCall, timer, sent, rankVars, createVars,
                   otherVars, now, netVars>>

\* time passes
Tick ==
    /\ now < MaxTicks
    /\ now' = now + 1
    /\ UNCHANGED <<lifeVars, netVars, rankVars, createVars, otherVars,
                   lastLeaderboardUpdate, emitTimes, inbox>>

\* one start of the competition, its ends, and the progress traffic
FirstStart == CHOOSE c \in StartCalls : \A d \in StartCalls : c <= d

NextLive ==
    \/ StartRequest(FirstStart, "comp")
    \/ StartLookupFails(FirstStart)
    \/ StartConfigFails(FirstStart)
    \/ StartPassesGuard(FirstStart)
    \/ StartUpdateSucceeds(FirstStart)
    \/ StartUpdateFails(FirstStart)
    \/ \E e \in EndCalls : handleEndCompetition(e)
    \/ \E i \in Sockets, w \in 1..MaxWpm : SendProgress(i, w)
    \/ applyProgress
    \/ Tick

SpecLive == Init /\ [][NextLive]_vars

\* ------------------------------------------------------- a second session
\* handleStartCompetition called for the second session passes the guard:
\* its flag is set and its participants' counters are reset
OtherStarts ==
    /\ ~ otherCompData.competitionInProgress
    /\ otherCompData' = [competitionInProgress |-> TRUE,
                         competitionData |-> ResetData]
    /\ UNCHANGED <<lifeVars, netVars, rankVars, createVars, otherRoom, clockVars>>

\* handleEndCompetition called for the second session passes the guard
OtherEnds ==
    /\ otherCompData.competitionInProgress
    /\ otherCompData' = [otherCompData EXCEPT !.competitionInProgress = FALSE]
    /\ UNCHANGED <<lifeVars, netVars, rankVars, createVars, otherRoom, clockVars>>

NextTwo ==
    \/ Next
    \/ OtherStarts
    \/ OtherEnds

SpecTwo == Init /\ [][NextTwo]_vars

\* ------------------------------------------------------------ POST /create
\* A JSON value of the request body is a record that carries its JavaScript
\* type; v is the number, the array, or a filler for the other types.
Undefined == [t |-> "undefined", v |-> 0]
Num(n) == [t |-> "number", v |-> n]
NotANumber == [t |-> "string", v |-> 0]
NoArray == [t |-> "undefined", v |-> <<>>]
Arr(s) == [t |-> "array", v |-> s]
NotAnArray == [t |-> "string", v |-> <<>>]

\* A string is its content (id), the length of the content, and the number
\* of blanks (pad) on either side of it.
Text(id, pad, len) == [t |-> "string", id |-> id, pad |-> pad, len |-> len]
NoText == [t |-> "undefined", id |-> "", pad |-> 0, len |-> 0]
Trim(text) == [text EXCEPT !.pad = 0]
Length(text) == text.len + 2 * text.pad

MinNameLength == 3
MaxNameLength == 100
MinTimeLimit == 30
MaxTimeLimit == 3600
MinTargetWords == 10
MaxTargetWords == 1000
MaxTextPool == 50
MinTextLength == 10
MaxTextLength == 2000
MaxRoundsAllowed == 10
MinRoundDuration == 30
MaxRoundDuration == 600
MinPlayers == 1

\* how many rounds a request of the model carries at most
MaxRounds == 2

ModeAbsent == "(undefined)"

IsIntIn(x, min, max) == x.t = "number" /\ x.v >= min /\ x.v <= max
TextLengthIn(text, min, max) ==
    Length(Trim(text)) >= min /\ Length(Trim(text)) <= max

NameValid(name) ==
    /\ TextLengthIn(name, MinNameLength, MaxNameLength)
    /\ name.id # "illegal!"
ModeValid(mode) == mode \in {ModeAbsent, "rounds", "timed", "word-count"}
TimeLimitValid(x) ==
    x.t = "undefined" \/ IsIntIn(x, MinTimeLimit, MaxTimeLimit)
TargetWordsValid(x) ==
    x.t = "undefined" \/ IsIntIn(x, MinTargetWords, MaxTargetWords)
TextPoolValid(x) ==
    \/ x.t = "undefined"
    \/ /\ x.t = "array"
       /\ Len(x.v) >= 1
       /\ Len(x.v) <= MaxTextPool
       /\ \A i \in 1..Len(x.v) :
            TextLengthIn(x.v[i], MinTextLength, MaxTextLength)
\* The chain on rounds opens with a condition that fails exactly when mode
\* is 'rounds'; the array check behind the second condition runs only if the
\* validator goes on after a failed condition.
RoundsArrayInvalid(body) ==
    /\ body.mode = "rounds"
    /\ ~ (/\ body.rounds.t = "array"
          /\ Len(body.rounds.v) >= 1
          /\ Len(body.rounds.v) <= MaxRoundsAllowed)
RoundItemsValid(body) ==
    \/ body.mode # "rounds"
    \/ body.rounds.t # "array"
    \/ \A i \in 1..Len(body.rounds.v) :
         /\ TextLengthIn(body.rounds.v[i].text, MinTextLength, MaxTextLength)
         /\ IsIntIn(body.rounds.v[i].duration,
                    MinRoundDuration, MaxRoundDuration)

validateCompetitionCreation(body) ==
    /\ NameValid(body.name)
    /\ ModeValid(body.mode)
    /\ TimeLimitValid(body.modeConfig.timeLimit)
    /\ TargetWordsValid(body.modeConfig.targetWords)
    /\ TextPoolValid(body.modeConfig.textPool)
    /\ RoundItemsValid(body)

\* const { mode = 'rounds' } = req.body
ModeOf(body) == IF body.mode = ModeAbsent THEN "rounds" ELSE body.mode

\* !x for a number or undefined, and for an array or undefined
Falsy(x) == x.t = "undefined" \/ (x.t = "number" /\ x.v = 0)
LengthZero(x) == x.t = "array" /\ Len(x.v) = 0

NoRequirement(body) == FALSE

TimedRequirementFails(body) ==
    /\ ModeOf(body) = "timed"
    /\ \/ Falsy(body.modeConfig.timeLimit)
       \/ /\ body.modeConfig.timeLimit.t = "number"
          /\ body.modeConfig.timeLimit.v < MinTimeLimit
TargetRequirementFails(body) ==
    /\ ModeOf(body) = "word-count"
    /\ \/ Falsy(body.modeConfig.targetWords)
       \/ /\ body.modeConfig.targetWords.t = "number"
          /\ body.modeConfig.targetWords.v < MinTargetWords
PoolRequirementFails(body) ==
    /\ ModeOf(body) = "word-count"
    /\ \/ body.modeConfig.textPool.t = "undefined"
       \/ LengthZero(body.modeConfig.textPool)
RoundsRequirementFails(body) ==
    /\ ModeOf(body) = "rounds"
    /\ (body.rounds.t = "undefined" \/ LengthZero(body.rounds))
MaxPlayersFails(body) ==
    /\ body.maxPlayers.t # "undefined"
    /\ (body.maxPlayers.t # "number" \/ body.maxPlayers.v < MinPlayers)

RequirementFails(body) ==
    \/ TimedRequirementFails(body)
    \/ TargetRequirementFails(body)
    \/ PoolRequirementFails(body)
    \/ RoundsRequirementFails(body)
    \/ MaxPlayersFails(body)

\* rounds.map and r.text.trim() throw a TypeError on a value that is no
\* array, and on a round without text
AddsRounds(body) == ModeOf(body) = "rounds" /\ body.rounds.t # "undefined"
MapThrows(body) ==
    /\ AddsRounds(body)
    /\ \/ body.rounds.t # "array"
       \/ \E i \in 1..Len(body.rounds.v) :
            body.rounds.v[i].text.t = "undefined"

RoundNumberFromZero(index) == index

\* index is the position rounds.map passes, counted from 0
RoundNumber(index) == index + 1

RoundOf(r, index) ==
    [ roundNumber |-> RoundNumber(index),
      text |-> Trim(r.text),
      duration |-> r.duration,
      status |-> "pending",
      startedAt |-> "null",
      endedAt |-> "null",
      results |-> <<>> ]

competitionDataOf(body) ==
    [ name |-> Trim(body.name),
      mode |-> ModeOf(body),
      modeConfig |-> body.modeConfig,
      maxPlayers |-> body.maxPlayers,
      status |-> "pending",
      currentRound |-> -1,
      totalRounds |-> IF AddsRounds(body) THEN Len(body.rounds.v) ELSE 0,
      roundsCompleted |-> 0,
      finalRankings |-> <<>>,
      rounds |-> IF AddsRounds(body)
                 THEN [i \in 1..Len(body.rounds.v) |->
                         RoundOf(body.rounds.v[i], i - 1)]
                 ELSE <<>> ]

\* handleValidationErrors: next(new AppError('Validation failed', 400))
CreateValidationFails ==
    /\ createResponse = "pending"
    /\ (\/ ~ validateCompetitionCreation(createRequest)
        \/ RoundsArrayInvalid(createRequest))
    /\ createResponse' = "validationFailed"
    /\ UNCHANGED <<lifeVars, netVars, rankVars, otherVars, clockVars, createRequest,
                   createStored>>

\* one of the checks of the handler answers with an AppError 400
CreateRequirementFails ==
    /\ createResponse = "pending"
    /\ validateCompetitionCreation(createRequest)
    /\ RequirementFails(createRequest)
    /\ createResponse' = "requirementFailed"
    /\ UNCHANGED <<lifeVars, netVars, rankVars, otherVars, clockVars, createRequest,
                   createStored>>

\* building competitionData throws; catchAsync hands the error to next
CreateThrows ==
    /\ createResponse = "pending"
    /\ validateCompetitionCreation(createRequest)
    /\ ~ RequirementFails(createRequest)
    /\ MapThrows(createRequest)
    /\ createResponse' = "serverError"
    /\ UNCHANGED <<lifeVars, netVars, rankVars, otherVars, clockVars, createRequest,
                   createStored>>

\* await competition.save() resolves; res.json({ success: true, ... })
CreateSaves ==
    /\ createResponse = "pending"
    /\ validateCompetitionCreation(createRequest)
    /\ ~ RequirementFails(createRequest)
    /\ ~ MapThrows(createRequest)
    /\ createStored' = Append(createStored, competitionDataOf(createRequest))
    /\ createResponse' = "success"
    /\ UNCHANGED <<lifeVars, netVars, rankVars, otherVars, clockVars, createRequest>>

\* await competition.save() rejects (schema validation, duplicate code,
\* database down); catchAsync hands the error to next
CreateSaveFails ==
    /\ createResponse = "pending"
    /\ validateCompetitionCreation(createRequest)
    /\ ~ RequirementFails(createRequest)
    /\ ~ MapThrows(createRequest)
    /\ createResponse' = "serverError"
    /\ UNCHANGED <<lifeVars, netVars, rankVars, otherVars, clockVars, createRequest,
                   createStored>>

\* the request bodies of the model
Names == { Text("Cup", 1, MinNameLength), Text("Cu", 0, MinNameLength - 1) }
RequestModes == {ModeAbsent, "rounds", "timed", "word-count", "sprint"}
TimeLimits == {Undefined, Num(MinTimeLimit - 1), Num(MinTimeLimit)}
TargetWordCounts == {Undefined, Num(MinTargetWords - 1), Num(MinTargetWords)}
TextPools == {NoArray, Arr(<<>>), Arr(<<Text("pool", 0, MinTextLength)>>)}
RoundItems ==
    { [text |-> Text("first", 1, MinTextLength),
       duration |-> Num(MinRoundDuration)],
      [text |-> Text("second", 0, MinTextLength),
       duration |-> Num(MaxRoundDuration)],
      [text |-> NoText, duration |-> Num(MinRoundDuration)] }
RoundLists ==
    {NoArray, NotAnArray, Arr(<<>>)} \cup
    UNION { {Arr(s) : s \in [1..n -> RoundItems]} : n \in 1..MaxRounds }
PlayerLimits == {Undefined, NotANumber, Num(MinPlayers - 1), Num(MinPlayers)}
CreateRequests ==
    [ name : Names,
      mode : RequestModes,
      modeConfig : [ timeLimit : TimeLimits,
                     targetWords : TargetWordCounts,
                     textPool : TextPools ],
      rounds : RoundLists,
      maxPlayers : PlayerLimits ]

InitCreate ==
    /\ InitLife
    /\ InitRankIdle
    /\ createRequest \in CreateRequests
    /\ createResponse = "pending"
    /\ createStored = <<>>
    /\ InitOtherIdle
    /\ InitClockIdle
    /\ InitNetIdle

NextCreate ==
    \/ CreateValidationFails
    \/ CreateRequirementFails
    \/ CreateThrows
    \/ CreateSaves
    \/ CreateSaveFails

SpecCreate == InitCreate /\ [][NextCreate]_vars

\* ---------------------------------------------------------- NetworkManager
maxRetries == 3
BaseDelay == 1000
MaxDelay == 5000

\* how many connectivity events and status updates a run delivers
MaxNetEvents == 1

Min(a, b) == IF a <= b THEN a ELSE b

DelayFromZero(attempts) == Min(BaseDelay * 2 ^ attempts, MaxDelay)

\* Math.min(1000 * Math.pow(2, this.retryAttempts - 1), 5000); the counter
\* is 0 when someone cleared it while the operation ran, and 2 ^ -1 is 0.5
Delay(attempts) ==
    IF attempts >= 1
    THEN Min(BaseDelay * 2 ^ (attempts - 1), MaxDelay)
    ELSE Min(BaseDelay \div 2 ^ (1 - attempts), MaxDelay)

AttemptsBeyondMax(attempts) == attempts > maxRetries

\* if (this.retryAttempts >= this.maxRetries)
AttemptsExhausted(attempts) == attempts >= maxRetries

OfflineNever(online) == FALSE

\* if (!this.isOnline)
Offline(online) == ~ online

AttemptsCleared(attempts) == 0

\* the exhausted branch returns false and leaves this.retryAttempts alone
AttemptsAfterExhaustion(attempts) == attempts

\* everything but the NetworkManager of the page
restOfNet == <<lifeVars, rankVars, createVars, otherVars, clockVars>>

\* a retryOperation call that has invoked the operation and not returned
Retrying(c) == netCall[c].pc \in {"operation", "backoff"}

\* the calls as they are once someone else has set retryAttempts to 0
MarkReset(calls, by) ==
    [d \in NetCalls |->
        IF d # by /\ calls[d].pc \in {"operation", "backoff"}
        THEN [calls[d] EXCEPT !.reset = TRUE] ELSE calls[d]]

\* the calls as they are once call c has been entered from outside: it
\* notes the state it found and which calls it runs alongside
MarkEntered(c) ==
    IF netCall[c].pc # "idle" THEN netCall
    ELSE LET others == \E d \in NetCalls : d # c /\ Retrying(d)
         IN [d \in NetCalls |->
               IF d = c
               THEN [netCall[d] EXCEPT
                        !.clean = (retryAttempts = 0 /\ isOnline),
                        !.overlapped = others]
               ELSE IF Retrying(d)
                    THEN [netCall[d] EXCEPT !.overlapped = TRUE]
                    ELSE netCall[d]]

\* retryOperation is entered, by a caller or by itself after the backoff
Entered(c) == netCall[c].pc \in {"idle", "backoff"}

\* the counter is used up: the call returns false
RetryRefused(c) ==
    /\ UNCHANGED restOfNet
    /\ Entered(c)
    /\ AttemptsExhausted(retryAttempts)
    /\ netCall' = [MarkEntered(c) EXCEPT ![c].pc = "done", ![c].out = "refused"]
    /\ UNCHANGED <<isOnline, connectionStatus, retryAttempts, errorsNotified,
                   netEvents>>

\* the page is offline: the call returns false
RetryOffline(c) ==
    /\ UNCHANGED restOfNet
    /\ Entered(c)
    /\ ~ AttemptsExhausted(retryAttempts)
    /\ Offline(isOnline)
    /\ netCall' = [MarkEntered(c) EXCEPT ![c].pc = "done", ![c].out = "offline"]
    /\ UNCHANGED <<isOnline, connectionStatus, retryAttempts, errorsNotified,
                   netEvents>>

\* this.retryAttempts++ and the operation is invoked and awaited
RetryInvokes(c) ==
    /\ UNCHANGED restOfNet
    /\ Entered(c)
    /\ ~ AttemptsExhausted(retryAttempts)
    /\ ~ Offline(isOnline)
    /\ retryAttempts' = retryAttempts + 1
    /\ netCall' = [MarkEntered(c) EXCEPT ![c].pc = "operation",
                                         ![c].invocations = @ + 1]
    /\ UNCHANGED <<isOnline, connectionStatus, errorsNotified, netEvents>>

\* the operation resolves: the counter is cleared and the result returned
OperationSucceeds(c) ==
    /\ UNCHANGED restOfNet
    /\ netCall[c].pc = "operation"
    /\ retryAttempts' = 0
    /\ netCall' = [MarkReset(netCall, c) EXCEPT ![c].pc = "done",
                                                ![c].out = "result"]
    /\ UNCHANGED <<isOnline, connectionStatus, errorsNotified, netEvents>>

\* the operation rejects with the counter used up: the error callbacks are
\* notified and the call returns false
RetryExhausted(c) ==
    /\ UNCHANGED restOfNet
    /\ netCall[c].pc = "operation"
    /\ AttemptsExhausted(retryAttempts)
    /\ errorsNotified' = errorsNotified + 1
    /\ retryAttempts' = AttemptsAfterExhaustion(retryAttempts)
    /\ netCall' = [netCall EXCEPT ![c].pc = "done", ![c].out = "exhausted",
                                  ![c].notified = @ + 1]
    /\ UNCHANGED <<isOnline, connectionStatus, netEvents>>

\* the operation rejects with attempts left: the call waits for the backoff
RetryBacksOff(c) ==
    /\ UNCHANGED restOfNet
    /\ netCall[c].pc = "operation"
    /\ ~ AttemptsExhausted(retryAttempts)
    /\ netCall' = [netCall EXCEPT ![c].pc = "backoff",
                                  ![c].waits = Append(@, Delay(retryAttempts))]
    /\ UNCHANGED <<isOnline, connectionStatus, retryAttempts, errorsNotified,
                   netEvents>>

retryOperation(c) ==
    \/ RetryRefused(c)
    \/ RetryOffline(c)
    \/ RetryInvokes(c)
    \/ OperationSucceeds(c)
    \/ RetryExhausted(c)
    \/ RetryBacksOff(c)

\* updateConnectionStatus for the value isOnline has when it runs
updateConnectionStatus(online) ==
    IF ~ online
    THEN /\ connectionStatus' = "disconnected"
         /\ UNCHANGED <<retryAttempts, netCall>>
    ELSE /\ connectionStatus' = "connected"
         /\ retryAttempts' = 0
         /\ netCall' = MarkReset(netCall, 0)

\* the 'online' event of the window: handleOnline
OnlineEvent ==
    /\ UNCHANGED restOfNet
    /\ netEvents < MaxNetEvents
    /\ ~ isOnline
    /\ isOnline' = TRUE
    /\ updateConnectionStatus(TRUE)
    /\ netEvents' = netEvents + 1
    /\ UNCHANGED errorsNotified

\* the 'offline' event of the window: handleOffline
OfflineEvent ==
    /\ UNCHANGED restOfNet
    /\ netEvents < MaxNetEvents
    /\ isOnline
    /\ isOnline' = FALSE
    /\ connectionStatus' = "disconnected"
    /\ netEvents' = netEvents + 1
    /\ UNCHANGED <<retryAttempts, netCall, errorsNotified>>

\* a script of the page calls updateConnectionStatus
StatusChecked ==
    /\ UNCHANGED restOfNet
    /\ netEvents < MaxNetEvents
    /\ updateConnectionStatus(isOnline)
    /\ netEvents' = netEvents + 1
    /\ UNCHANGED <<isOnline, errorsNotified>>

NextNet ==
    \/ \E c \in NetCalls : retryOperation(c)
    \/ OnlineEvent
    \/ OfflineEvent
    \/ StatusChecked

\* this.isOnline = navigator.onLine, then init() runs updateConnectionStatus
InitNet ==
    /\ InitLife
    /\ competition.mode = "rounds"
    /\ InitRankIdle
    /\ InitCreateIdle
    /\ InitOtherIdle
    /\ InitClockIdle
    /\ isOnline \in BOOLEAN
    /\ connectionStatus = IF isOnline THEN "connected" ELSE "disconnected"
    /\ retryAttempts = 0
    /\ netCall = [c \in NetCalls |-> IdleNetCall]
    /\ errorsNotified = 0
    /\ netEvents = 0

SpecNet == InitNet /\ [][NextNet]_vars

\* an operation that was invoked settles, a backoff timer fires, and a call
\* that is entered runs its checks
SpecNetFair ==
    SpecNet /\ \A c \in NetCalls : WF_vars(retryOperation(c))

\* ================================================================ claims
\* the end invocations that ran their guard during run k (the period begun
\* by the k-th start that set the flag), and those of them that passed it
EndsOfRun(k) == {e \in EndCalls : endCall[e].checked /\ endCall[e].epoch = k}
PassedOfRun(k) == {e \in EndsOfRun(k) : endCall[e].passed}
Runs == 1..NumStartCalls

\* C1: of the end triggers (manual calls, timer callbacks) that reach the
\* guard during one in-progress period, exactly one passes it; the others
\* compute nothing; so one set of final results is computed, the stored
\* competition is marked completed at most once for that period, and no
\* participant has more stored results than there were ended periods.
C1_ExactlyOneEndPerRun ==
    /\ \A k \in Runs :
          /\ EndsOfRun(k) # {} => Cardinality(PassedOfRun(k)) = 1
          /\ \A e \in EndsOfRun(k) \ PassedOfRun(k) :
                /\ endCall[e].out = "ignored"
                /\ endCall[e].finalResults = <<>>
                /\ ~endCall[e].emitted
          /\ Cardinality({e \in EndsOfRun(k) :
                 endCall[e].pc \in {"results", "leaderboard"}
                 \/ endCall[e].out \in {"resultFailed", "ended"}}) <= 1
    /\ EndsOfRun(0) = {e \in EndsOfRun(0) : endCall[e].out = "ignored"}
    /\ \A i \in Sockets :
          Len(participantResults[i]) <=
              Cardinality({k \in Runs : PassedOfRun(k) # {}})
    /\ room.competitionEnded <= Cardinality({k \in Runs : PassedOfRun(k) # {}})

\* a manual end and the timer of a start both reached the guard during the
\* same in-progress period
C1_Witness ==
    \E k \in Runs, m \in ManualEnds, t \in TimerEnds :
        /\ {m, t} \subseteq EndsOfRun(k)
        /\ Cardinality(PassedOfRun(k) \cap {m, t}) = 1

\* the start calls for the session that have run the guard
ReachedStartGuard ==
    {c \in StartCalls : startCall[c].passed \/ startCall[c].out = "blocked"}

C2_AtMostOneStart ==
    /\ StartPasses <= EndPasses + 1
    /\ EndPasses = 0 =>
          /\ ReachedStartGuard # {} => StartPasses = 1
          /\ Cardinality({c \in StartCalls : startCall[c].out = "started"}) <= 1
          /\ competition.startedAt \in {0, 1}
          /\ room.competitionStarted <= 1
    /\ \A c \in StartCalls :
          startCall[c].out = "blocked" => ~startCall[c].passed /\ socketErrors[c] = 0

C2_BlockedIsNoOp ==
    \A c \in StartCalls :
        (startCall[c].out = "none" /\ startCall'[c].out = "blocked") =>
            UNCHANGED <<session, competition, participantResults, timer, sent,
                        leaderboardCalls, endCall>>

\* C2: of the start calls that reach the guard of a pending competition
\* before any end, exactly one sets the flag, resets the counters and sets
\* startedAt; every other one returns there, changing no state and emitting
\* no event.
C2_DuplicateStartIsNoOp == []C2_AtMostOneStart /\ [][C2_BlockedIsNoOp]_vars

\* one call is past the guard and still awaiting the database update, the
\* other has been turned away
C2_Witness ==
    \E c, d \in StartCalls :
        /\ startCall[c].pc = "update"
        /\ startCall[d].out = "blocked"
        /\ EndPasses = 0

\* C3: a start takes effect only from status pending, and completed is
\* terminal: a completed competition is not put back to ongoing, its
\* counters are not reset again and competitionStarted is not emitted again.
C3_CompletedIsTerminal ==
    [][/\ \A c \in StartCalls :
             (~startCall[c].passed /\ startCall'[c].passed) =>
                 competition.status = "pending"
       /\ competition.status = "completed" =>
             /\ competition'.status = "completed"
             /\ room'.competitionStarted = room.competitionStarted
             /\ participants' = participants]_vars

\* C4: a start that fails with an exception after setting the flag has
\* cleared the flag again when it returns.
C4_FlagReleasedOnFailure ==
    [][\A c \in StartCalls :
          (/\ startCall[c].pc # "done"
           /\ startCall'[c].pc = "done"
           /\ startCall'[c].passed
           /\ startCall'[c].out \in {"configFailed", "updateFailed"}) =>
              ~competitionInProgress']_vars

\* handlers that are past their guard and have not returned, and handlers
\* that have been entered and have not returned
InFlight ==
    {c \in StartCalls : startCall[c].pc = "update"}
    \cup {e \in EndCalls : endCall[e].pc \in {"save", "results", "leaderboard"}}
Running ==
    InFlight \cup {c \in StartCalls : startCall[c].pc = "findById"}

C6_EndDisarmsTimer ==
    \A c \in StartCalls :
        (\E e \in EndCalls : endCall[e].passed /\ endCall[e].epoch = startCall[c].epoch)
            => timer[c] # "armed"

\* C7: every start of a timed competition that set the flag has armed the
\* auto-end timer by the time it returns.
C7_EffectiveTimedStartArmsTimer ==
    \A c \in StartCalls :
        (/\ startCall[c].pc = "done"
         /\ startCall[c].passed
         /\ competition.mode = "timed") => timer[c] # "none"

\* C8: an end whose persistence write failed has still broadcast
\* competitionEnded.
C8_PersistenceFailureStillBroadcasts ==
    \A e \in EndCalls :
        endCall[e].out \in {"saveFailed", "resultFailed"} =>
            endCall[e].emitted

\* C9: a start addressing a competition that is not stored, or has no
\* session, emits one error to its caller and changes nothing else.
C9_NotFoundEmitsError ==
    [][\A c \in StartCalls :
          (/\ startCall[c].pc # "done"
           /\ startCall'[c].pc = "done"
           /\ startCall'[c].id \notin Stored \cap Active) =>
              /\ socketErrors' = [socketErrors EXCEPT ![c] = @ + 1]
              /\ UNCHANGED <<session, competition, participantResults, timer,
                             room, leaderboardCalls, endCall>>]_vars

\* C10: the ranks are 1..N, each given once; every participant of the
\* input has exactly one result; a higher wpm never has a larger rank; and
\* of two results with equal wpm the one inserted first has the smaller rank.
C10_RanksDenseStableByWpm ==
    rankOutput # <<>> =>
        LET results == rankOutput[1]
            N == Len(rankInput)
            ResultOfId(i) == CHOOSE j \in 1..N : results[j].participantId = i
        IN /\ Len(results) = N
           /\ \A j \in 1..N : results[j].rank = j
           /\ \A i \in 1..N :
                 Cardinality({j \in 1..N : results[j].participantId = i}) = 1
           /\ \A i \in 1..N :
                 results[ResultOfId(i)].wpm = ResultOf(rankInput[i]).wpm
           /\ \A a, b \in 1..N :
                 results[a].wpm > results[b].wpm =>
                     results[a].rank < results[b].rank
           /\ \A i, j \in 1..N :
                 (i < j /\ ResultOf(rankInput[i]).wpm = ResultOf(rankInput[j]).wpm)
                     => results[ResultOfId(i)].rank < results[ResultOfId(j)].rank

\* a ranked array with a tie and with an entry that had to move up
C10_Witness ==
    /\ rankOutput # <<>>
    /\ Len(rankInput) = MaxRankLen
    /\ ResultOf(rankInput[1]).wpm = ResultOf(rankInput[2]).wpm
    /\ ResultOf(rankInput[3]).wpm > ResultOf(rankInput[1]).wpm
    /\ rankOutput[1][1].participantId = 3

\* C11: an end that takes effect computes one result per participant, and
\* over the life of a competition no participant has a result record
\* appended more than once.
C11_OneResultPerParticipant ==
    /\ \A e \in EndCalls :
          endCall[e].pc \in {"save", "results", "leaderboard"} =>
              /\ Len(endCall[e].finalResults) = NumParticipants
              /\ \A i \in Sockets :
                    Cardinality({j \in 1..Len(endCall[e].finalResults) :
                        endCall[e].finalResults[j].participantId = i}) = 1
    /\ \A i \in Sockets : Len(participantResults[i]) <= 1

C13_EventsOncePerTransition ==
    /\ room.competitionStarted =
          Cardinality({c \in StartCalls :
              startCall[c].passed /\ startCall[c].pc = "done"})
    /\ \A e \in EndCalls :
          (endCall[e].passed /\ endCall[e].pc = "done") => endCall[e].emitted
    /\ room.competitionEnded =
          Cardinality({e \in EndCalls : endCall[e].emitted})
    /\ room.competitionEnded <= room.competitionStarted

\* C14: an end passes the guard only in a run whose start has succeeded
\* (status ongoing stored, competitionStarted broadcast).
C14_EndOnlyAfterSuccessfulStart ==
    \A e \in EndCalls :
        endCall[e].passed =>
            \E c \in StartCalls :
                /\ startCall[c].epoch = endCall[e].epoch
                /\ startCall[c].out = "started"

\* C17: every start that has succeeded and every end that cleared the flag
\* and has returned has been followed by a leaderboard update call.
C17_LeaderboardCalledAfterTransition ==
    leaderboardCalls >=
        Cardinality({c \in StartCalls : startCall[c].out = "started"})
        + Cardinality({e \in EndCalls :
              endCall[e].passed /\ endCall[e].pc = "done"})

\* the request asks for rounds mode
WantsRounds == ModeOf(createRequest) = "rounds"

\* C19: every competition POST /create stores has status pending,
\* currentRound -1, roundsCompleted 0 and empty finalRankings; in rounds mode
\* its rounds are the rounds of the request in request order, numbered 1..N,
\* each pending with null startedAt and endedAt and no results, and
\* totalRounds is N; in timed and word-count mode it has no rounds and
\* totalRounds is 0.
C19_StoredStartsInitial ==
    \A k \in 1..Len(createStored) :
        LET d == createStored[k] IN
        /\ d.status = "pending"
        /\ d.currentRound = -1
        /\ d.roundsCompleted = 0
        /\ d.finalRankings = <<>>
        /\ d.totalRounds = Len(d.rounds)
        /\ WantsRounds =>
             /\ Len(d.rounds) = Len(createRequest.rounds.v)
             /\ \A i \in 1..Len(d.rounds) :
                  /\ d.rounds[i].roundNumber = i
                  /\ d.rounds[i].text.id = createRequest.rounds.v[i].text.id
                  /\ d.rounds[i].status = "pending"
                  /\ d.rounds[i].startedAt = "null"
                  /\ d.rounds[i].endedAt = "null"
                  /\ d.rounds[i].results = <<>>
        /\ ~ WantsRounds => d.rounds = <<>> /\ d.totalRounds = 0

\* a competition with two different rounds has been stored
C19_Witness ==
    /\ Len(createStored) = 1
    /\ createResponse = "success"
    /\ Len(createStored[1].rounds) = MaxRounds
    /\ createStored[1].rounds[1].text.id # createStored[1].rounds[2].text.id

\* the mode-specific requirement of the request is not met
RequirementUnmet ==
    LET body == createRequest IN
    \/ /\ ModeOf(body) = "timed"
       /\ ~ (/\ body.modeConfig.timeLimit.t = "number"
             /\ body.modeConfig.timeLimit.v >= 30)
    \/ /\ ModeOf(body) = "word-count"
       /\ \/ ~ (/\ body.modeConfig.targetWords.t = "number"
                /\ body.modeConfig.targetWords.v >= 10)
          \/ body.modeConfig.textPool.t # "array"
          \/ Len(body.modeConfig.textPool.v) = 0
    \/ /\ ModeOf(body) = "rounds"
       /\ ~ (body.rounds.t = "array" /\ Len(body.rounds.v) >= 1)
    \/ /\ body.maxPlayers.t # "undefined"
       /\ ~ (body.maxPlayers.t = "number" /\ body.maxPlayers.v > 0)

\* C20: a request whose mode-specific requirement is not met (timed without
\* a time limit of at least 30, word-count without a target of at least 10
\* or without a non-empty text pool, rounds without a round, maxPlayers that
\* is no number above 0) is answered with an error and stores nothing.
C20_UnmetRequirementRejected ==
    RequirementUnmet =>
        /\ createStored = <<>>
        /\ createResponse \in
             {"pending", "validationFailed", "requirementFailed", "serverError"}

\* a request that passed the validators was turned down by the handler
C20_Witness ==
    /\ RequirementUnmet
    /\ validateCompetitionCreation(createRequest)
    /\ createResponse = "requirementFailed"
    /\ createStored = <<>>

\* C18: sessions are independent: no step of a start or an end called for
\* one competition, failed or not, changes the flag or the counters of
\* another session or emits an event to the other session's room.
C18_SessionsIndependent ==
    [][lifeVars' # lifeVars =>
          otherCompData' = otherCompData /\ otherRoom' = otherRoom]_vars

\* the first competition was started and its end failed while the second
\* session was in progress, and the second room heard nothing of it
C18_Witness ==
    /\ \E c \in StartCalls : startCall[c].out = "started"
    /\ \E e \in EndCalls : endCall[e].out = "saveFailed"
    /\ room.competitionStarted > 0
    /\ otherCompData.competitionInProgress
    /\ otherRoom = 0

Ended == EndPasses > 0 /\ EndPasses >= StartPasses

\* C16: a progress event handled after the competition has ended is
\* dropped: it leaves the live counters of every participant, the final
\* results and rankings and the competition's status and flag unchanged and
\* triggers no leaderboard update.
C16_LateProgressDropped ==
    [][(inbox.state = "sent" /\ inbox'.state # "sent" /\ Ended) =>
          /\ inbox'.state = "dropped"
          /\ UNCHANGED <<participants, participantResults, competition,
                         competitionInProgress, endCall, room,
                         leaderboardCalls, emitTimes>>]_vars

\* a progress event was dropped after the end handler had returned and the
\* results had been stored; the sender's counters are not the event's
C16_Witness ==
    /\ inbox.state = "dropped"
    /\ Ended
    /\ \E e \in EndCalls : endCall[e].out = "ended"
    /\ participantResults[inbox.participantId] # <<>>
    /\ participants[inbox.participantId].competitionData # NoData
    /\ participants[inbox.participantId].competitionData.wpm # inbox.wpm

\* the end handler e is past its guard and has not returned
Suspended(e) == endCall[e].pc \in {"save", "results", "leaderboard"}

\* C21: the final results of an end are the participants' counters at the
\* instant the end passed its guard: while the handler waits for its writes
\* no step of anyone changes its finalResults, and every record it stores is
\* taken from them, whatever the live counters have become.
C21_ResultsAreSnapshot ==
    [][\A e \in EndCalls :
          /\ (~ endCall[e].passed /\ endCall'[e].passed) =>
                \A k \in 1..Len(endCall'[e].finalResults) :
                    LET r == endCall'[e].finalResults[k]
                    IN r.wpm = ResultOf(participants[r.participantId]).wpm
          /\ (Suspended(e) /\ endCall'[e].pc \in {"save", "results", "leaderboard"}) =>
                endCall'[e].finalResults = endCall[e].finalResults
          /\ (endCall[e].pc = "results" /\ endCall'[e] # endCall[e]
                  /\ participantResults' # participantResults) =>
                LET r == endCall[e].finalResults[endCall[e].next]
                    stored == participantResults'[r.participantId]
                IN /\ Len(stored) = Len(participantResults[r.participantId]) + 1
                   /\ stored[Len(stored)].wpm = r.wpm
                   /\ stored[Len(stored)].correctChars = r.correctChars
                   /\ stored[Len(stored)].wordsTyped = r.wordsTyped
                   /\ stored[Len(stored)].accuracy = r.accuracy]_vars

\* an end is still storing results taken at its guard while a new start has
\* reset the counters: a stored record differs from the live counters
C21_Witness ==
    \E e \in EndCalls :
        /\ endCall[e].pc = "results"
        /\ endCall[e].next > 1
        /\ LET r == endCall[e].finalResults[1]
           IN /\ r.wpm > 0
              /\ participantResults[r.participantId] # <<>>
              /\ participantResults[r.participantId][1].wpm = r.wpm
              /\ ResultOf(participants[r.participantId]).wpm # r.wpm

\* C22: an auto-end timer only ever ends the run begun by the start that
\* armed it: an end that a timer triggered and that took effect ended the
\* run of that timer's own start.
C22_TimerEndsItsOwnRun ==
    \A e \in TimerEnds :
        endCall[e].passed => endCall[e].epoch = startCall[e[2]].epoch

\* C23: every competition POST /create accepts can be started: no start
\* that finds the competition idle fails while it prepares the
\* configuration to broadcast.
C23_AcceptedCompetitionStarts ==
    \A c \in StartCalls : startCall[c].out # "configFailed"

\* C24: lifecycle broadcasts follow persistence: competitionStarted goes out
\* only with the stored status updated to ongoing, competitionEnded only
\* after the completed competition and every participant's result have been
\* written, one write per step in the order of finalResults; a start or an
\* end one of whose writes failed has emitted nothing.
C24_BroadcastAfterPersistence ==
    [][/\ room'.competitionStarted # room.competitionStarted =>
            /\ competition'.status = "ongoing"
            /\ \E c \in StartCalls :
                   startCall[c].pc = "update" /\ startCall'[c].out = "started"
       /\ \A c \in StartCalls :
            startCall'[c].out = "updateFailed" /\ startCall[c].out = "none" =>
                room' = room
       /\ \A e \in EndCalls :
            /\ (endCall[e].pc = "save"
                    /\ endCall'[e].pc \in {"results", "leaderboard"}) =>
                 /\ competition'.status = "completed"
                 /\ Len(competition'.finalRankings) = Len(endCall[e].finalResults)
            /\ (endCall[e].pc = "results" /\ endCall'[e].pc = "results"
                    /\ endCall'[e].next # endCall[e].next) =>
                 /\ endCall'[e].next = endCall[e].next + 1
                 /\ participantResults' # participantResults
            /\ (~ endCall[e].emitted /\ endCall'[e].emitted) =>
                 \/ /\ endCall[e].pc = "results"
                    /\ endCall[e].next = Len(endCall[e].finalResults)
                    /\ participantResults' # participantResults
                 \/ /\ endCall[e].pc = "save"
                    /\ endCall[e].finalResults = <<>>
            /\ endCall'[e].out \in {"saveFailed", "resultFailed"} =>
                 /\ ~ endCall'[e].emitted
                 /\ endCall[e].out = "none" => room' = room]_vars

\* one end has broadcast its results after all its writes, another end and a
\* start have failed on a write and broadcast nothing
C24_Witness ==
    /\ \E e \in EndCalls : endCall[e].emitted /\ endCall[e].out = "ended"
    /\ \E e \in EndCalls : endCall[e].out = "resultFailed"
    /\ \E c \in StartCalls : startCall[c].out = "updateFailed"
    /\ room.competitionEnded = 1
    /\ \A i \in Sockets : participantResults[i] # <<>>

\* call c was entered online with the counter at 0 and no other call has
\* run alongside it
Single(c) == netCall[c].clean /\ ~ netCall[c].overlapped

\* what a call may have done: at most maxRetries invocations, false after
\* the last failure with the error callbacks notified once, no notification
\* otherwise
WithinRetries(c) ==
    /\ netCall[c].invocations <= 3
    /\ netCall[c].out = "exhausted" =>
          netCall[c].invocations = 3 /\ netCall[c].notified = 1
    /\ netCall[c].out # "exhausted" => netCall[c].notified = 0
    /\ netCall[c].out = "result" => netCall[c].invocations >= 1
    /\ netCall[c].out # "refused"

\* C25 as stated: a single retryOperation call entered online with
\* retryAttempts = 0 invokes the operation at most 3 times and returns false
\* after the third failure with one notification of the error callbacks.
C25_SingleCallWithinRetries ==
    \A c \in NetCalls : Single(c) => WithinRetries(c)

\* nobody but call c itself has cleared the counter while c ran
Undisturbed(c) == Single(c) /\ ~ netCall[c].reset

\* C25 amended: a single call entered online with retryAttempts = 0, during
\* which no updateConnectionStatus runs online, invokes the operation at
\* most 3 times, counts its failures in retryAttempts, returns the result
\* of the first success with retryAttempts back at 0, returns false after
\* the third failure with one notification, and returns.
C25_UndisturbedCallWithinRetries ==
    /\ [](\A c \in NetCalls :
            Undisturbed(c) =>
                /\ WithinRetries(c)
                /\ Retrying(c) => retryAttempts = netCall[c].invocations)
    /\ [][\A c \in NetCalls :
            (netCall[c].pc = "operation" /\ netCall'[c].out = "result") =>
                retryAttempts' = 0 /\ netCall'[c].pc = "done"]_vars
    /\ \A c \in NetCalls :
            (netCall[c].pc # "idle") ~>
                (netCall[c].pc = "done" \/ ~ Undisturbed(c))

\* one undisturbed call has failed three times and notified the error
\* callbacks, another has returned the result of its second attempt
C25_Witness ==
    \E c, d \in NetCalls :
        /\ Undisturbed(c) /\ netCall[c].out = "exhausted"
        /\ netCall[c].invocations = 3 /\ errorsNotified = 1
        /\ Undisturbed(d) /\ netCall[d].out = "result"
        /\ netCall[d].invocations = 2 /\ retryAttempts = 0

\* C26: under any interleaving of retryOperation calls, online and offline
\* events and updateConnectionStatus, 0 <= retryAttempts <= maxRetries.
C26_AttemptsWithinBounds == retryAttempts >= 0 /\ retryAttempts <= 3

\* two calls await their operations at once and the counter is at its top
C26_Witness ==
    /\ retryAttempts = 3
    /\ \A c \in NetCalls : netCall[c].pc = "operation"

\* call c runs the checks at the head of retryOperation in this step
EntersNow(c) ==
    /\ netCall[c].pc \in {"idle", "backoff"}
    /\ netCall'[c].pc # netCall[c].pc

\* C27: while the NetworkManager is offline retryOperation never invokes
\* the operation: a call entered offline, from outside or after its backoff
\* wait, returns false and leaves retryAttempts and connectionStatus as
\* they are.
C27_OfflineNeverInvokes ==
    [][~ isOnline =>
          /\ \A c \in NetCalls :
                netCall'[c].invocations = netCall[c].invocations
          /\ \A c \in NetCalls :
                EntersNow(c) =>
                   /\ netCall'[c].pc = "done"
                   /\ netCall'[c].out \in {"offline", "refused"}
                   /\ retryAttempts' = retryAttempts
                   /\ connectionStatus' = connectionStatus]_vars

\* a retry sequence that went offline during its backoff wait has stopped
C27_Witness ==
    \E c \in NetCalls :
        /\ netCall[c].out = "offline"
        /\ netCall[c].waits # <<>>
        /\ ~ isOnline
        /\ retryAttempts = netCall[c].invocations
        /\ connectionStatus = "disconnected"

\* C28: the failure that uses up the counter does not reset it; while it is
\* at maxRetries every call entered returns false without invoking its
\* operation or notifying the error callbacks; it leaves maxRetries only
\* for 0, by updateConnectionStatus running online or by the success of an
\* operation that was running.
C28_ExhaustedUntilReset ==
    [][/\ \A c \in NetCalls :
            (netCall[c].out = "none" /\ netCall'[c].out = "exhausted") =>
                retryAttempts' = 3
       /\ retryAttempts = 3 =>
            /\ \A c \in NetCalls :
                  EntersNow(c) =>
                     /\ netCall'[c].pc = "done"
                     /\ netCall'[c].out = "refused"
                     /\ netCall'[c].invocations = netCall[c].invocations
                     /\ errorsNotified' = errorsNotified
            /\ retryAttempts' # 3 =>
                  /\ retryAttempts' = 0
                  /\ \/ netEvents' # netEvents /\ isOnline'
                     \/ \E c \in NetCalls :
                           /\ netCall[c].pc = "operation"
                           /\ netCall'[c].out = "result"]_vars

\* after one call used up the counter a later call was refused without an
\* invocation and without a second notification
C28_Witness ==
    \E c, d \in NetCalls :
        /\ netCall[c].out = "exhausted"
        /\ netCall[d].out = "refused"
        /\ netCall[d].invocations = 0
        /\ retryAttempts = 3
        /\ errorsNotified = 1

\* the largest counter value the backoff formula is checked for
MaxBackoffAttempts == 5

\* C29: the wait after the k-th failed attempt is min(1000 * 2^(k-1), 5000)
\* ms, 1000 after the first failure and 2000 after the second,
\* non-decreasing in k and at most 5000; a call waits exactly that long
\* after a failure that leaves attempts, and not at all after the failure
\* that uses up the counter.
C29_BackoffDelays ==
    /\ [](/\ Delay(1) = 1000
          /\ Delay(2) = 2000
          /\ \A k \in 1..MaxBackoffAttempts :
                /\ Delay(k) <= 5000
                /\ Delay(k) \in {1000 * 2 ^ (k - 1), 5000}
                /\ k > 1 => Delay(k - 1) <= Delay(k))
    /\ [][\A c \in NetCalls :
            netCall[c].pc = "operation" /\ netCall'[c].pc # "operation" =>
               \/ /\ netCall'[c].pc = "backoff"
                  /\ retryAttempts < 3
                  /\ Len(netCall'[c].waits) = Len(netCall[c].waits) + 1
                  /\ retryAttempts \in {1, 2} =>
                        netCall'[c].waits[Len(netCall'[c].waits)]
                            = 1000 * 2 ^ (retryAttempts - 1)
               \/ /\ netCall'[c].pc = "done"
                  /\ netCall'[c].waits = netCall[c].waits]_vars

\* a call has waited 1000 ms and 2000 ms and failed a third time
C29_Witness ==
    \E c \in NetCalls :
        /\ netCall[c].waits = <<1000, 2000>>
        /\ netCall[c].out = "exhausted"
        /\ netCall[c].invocations = 3

====
